---------------------------- MODULE Spec2Model ----------------------------
(***************************************************************************)
(* A model of aiohttp/protocol.py: the incremental body parser             *)
(* (HttpPayloadParser), the outbound PayloadWriter with its transport      *)
(* acquisition and drain, the Request/Response message writers, and the    *)
(* header and request-line parsers (HttpParser, HttpRequestParser).        *)
(*                                                                         *)
(* Bytes are modelled as one-character strings, CR and LF as the tokens    *)
(* "CR" and "LF"; a bytes object is a sequence of them.  Python's None is  *)
(* carried by a separate flag next to the value it replaces.               *)
(***************************************************************************)
EXTENDS Integers, Sequences, FiniteSets, TLC

VARIABLES
    parser,     \* the HttpPayloadParser object (its fields)
    sink,       \* the payload sink behind it: what it was fed
    input,      \* the byte stream the connection delivers to the parser
    pos,        \* how many bytes of input were handed to feed_data so far
    last,       \* history: the latest call on the parser, the length of its
                \* buffer and what it returned
    dones,      \* history: the feed_data calls that returned done = true
    message,    \* the message parse_message returned for the received head
    writers,    \* the PayloadWriter / HttpMessage objects, by writer id
    stream      \* the stream the writers share, which owns the transport

pvars == <<parser, sink, input, pos, last, dones, message>>

wvars == <<writers, stream>>

vars == <<parser, sink, input, pos, last, dones, message, writers, stream>>

-----------------------------------------------------------------------------
(* Bounds of the model *)

MaxChunks == 1        \* data chunks in a generated chunked body
MaxChunkSize == 2     \* bytes of data in one generated chunk
MaxCut == 2           \* longest buffer handed to one feed_data call
MaxLength == 3        \* largest Content-Length of a fixed-length body
MaxInput == 4         \* longest raw byte stream fed in the other modes
MaxWrites == 2        \* write calls on one writer
MaxDrains == 1        \* drain calls on one writer
NWriters == 2         \* writers created on one stream

-----------------------------------------------------------------------------
(* Bytes *)

CR == "CR"
LF == "LF"
SEP == <<CR, LF>>
CHUNK_EXT == <<";">>

Min(a, b) == IF a <= b THEN a ELSE b

\* Python's s[a:b] for 0 <= a, 0 <= b (0-based, end exclusive, clamped)
PySlice(s, a, b) ==
    IF a >= Min(b, Len(s)) THEN <<>> ELSE SubSeq(s, a + 1, Min(b, Len(s)))

\* Python's s[a:]
PyFrom(s, a) == PySlice(s, a, Len(s))

\* Python's s.find(pat, lo, hi): the lowest 0-based index in [lo, hi) at
\* which pat occurs entirely inside s[lo:hi], or -1
Find(s, pat, lo, hi) ==
    LET top == Min(hi, Len(s))
        hits == {i \in lo .. (top - Len(pat)) :
                    SubSeq(s, i + 1, i + Len(pat)) = pat}
    IN  IF hits = {} THEN -1
        ELSE CHOOSE i \in hits : \A j \in hits : i <= j

DigitVal ==
    ("0" :> 0) @@ ("1" :> 1) @@ ("2" :> 2) @@ ("3" :> 3) @@ ("4" :> 4) @@
    ("5" :> 5) @@ ("6" :> 6) @@ ("7" :> 7) @@ ("8" :> 8) @@ ("9" :> 9) @@
    ("a" :> 10) @@ ("b" :> 11) @@ ("c" :> 12) @@ ("d" :> 13) @@
    ("e" :> 14) @@ ("f" :> 15)

\* int(size, 16) raises ValueError: an empty field or a non-hex byte
\* (signs, blanks and the 0x prefix are outside the modelled alphabet)
IsHex(size) ==
    /\ Len(size) > 0
    /\ \A i \in 1 .. Len(size) : size[i] \in DOMAIN DigitVal

RECURSIVE HexVal(_)
HexVal(size) ==
    IF size = <<>> THEN 0
    ELSE 16 * HexVal(SubSeq(size, 1, Len(size) - 1)) + DigitVal[size[Len(size)]]

\* '%x' % n
RECURSIVE HexStr(_)
HexStr(n) ==
    LET d == CHOOSE c \in DOMAIN DigitVal : DigitVal[c] = n % 16
    IN  IF n < 16 THEN <<d>> ELSE HexStr(n \div 16) \o <<d>>

-----------------------------------------------------------------------------
(* HttpPayloadParser *)

PARSE_NONE == 0
PARSE_LENGTH == 1
PARSE_CHUNKED == 2
PARSE_UNTIL_EOF == 3

PARSE_CHUNKED_SIZE == 0
PARSE_CHUNKED_CHUNK == 1
PARSE_CHUNKED_CHUNK_EOF == 2
PARSE_CHUNKED_TRAILERS == 3

\* The payload sink: the bytes fed, the number of feed_eof calls, whether
\* set_exception was called.
EmptySink == [data |-> <<>>, eof |-> 0, exc |-> FALSE]

SinkFeedData(s, chunk) == [s EXCEPT !.data = @ \o chunk]

SinkFeedEof(s) == [s EXCEPT !.eof = @ + 1]

SinkSetException(s) == [s EXCEPT !.exc = TRUE]

\* The constructor's arguments; length is meaningful when hasLength.
CtorArgs ==
    [hasLength : BOOLEAN, length : 0 .. MaxLength, chunked : BOOLEAN,
     compression : BOOLEAN, code : {200, 204}, method : {"GET", "POST"},
     readall : BOOLEAN, response_with_body : BOOLEAN]

\* HttpPayloadParser.__init__: the parser's fields and the sink after it.
\* deflate tells that payload is a DeflateBuffer around the sink; a fresh
\* DeflateBuffer's feed_eof (size = 0, nothing to flush) forwards the EOF.
NewParserType(a) ==
    IF ~a.response_with_body THEN PARSE_NONE
    ELSE IF a.chunked THEN PARSE_CHUNKED
    ELSE IF a.hasLength THEN PARSE_LENGTH
    ELSE IF a.readall /\ a.code # 204 THEN PARSE_UNTIL_EOF
    ELSE PARSE_NONE

NewParserDone(a) ==
    IF ~a.response_with_body THEN TRUE
    ELSE IF a.chunked THEN FALSE
    ELSE IF a.hasLength THEN a.length = 0
    ELSE IF a.readall /\ a.code # 204 THEN FALSE
    ELSE IF a.method \in {"PUT", "POST"} THEN TRUE
    ELSE FALSE

NewParser(a) ==
    [type |-> NewParserType(a),
     length |-> IF a.response_with_body /\ ~a.chunked /\ a.hasLength
                THEN a.length ELSE 0,
     chunk |-> PARSE_CHUNKED_SIZE,
     chunk_size |-> 0,
     chunk_tail |-> <<>>,
     done |-> NewParserDone(a),
     deflate |-> a.response_with_body /\ a.compression]

\* every path of __init__ that sets done also calls payload.feed_eof()
NewSink(a) ==
    IF NewParserDone(a) THEN SinkFeedEof(EmptySink) ELSE EmptySink

\* the parser a chunked message body is given to
ChunkedParser0 ==
    NewParser([hasLength |-> FALSE, length |-> 0, chunked |-> TRUE,
               compression |-> FALSE, code |-> 200, method |-> "GET",
               readall |-> FALSE, response_with_body |-> TRUE])

\* What feed_data returns: (done, rest); none tells rest is None; raised
\* tells the call raised TransferEncodingError instead of returning.
Ret(done, none, rest) ==
    [done |-> done, none |-> none, rest |-> rest, raised |-> FALSE]

Raised == [done |-> FALSE, none |-> TRUE, rest |-> <<>>, raised |-> TRUE]

Out(p, s, r) == [p |-> p, s |-> s, ret |-> r]

\* the record of the latest call on the parser, before any call
NoCall == [op |-> "none", len |-> 0, ret |-> Ret(FALSE, TRUE, <<>>)]

\* FeedLength with the truncation of the last buffer forgotten
FeedLength_NoTruncation(p, s, chunk) ==
    LET required == p.length
        chunk_len == Len(chunk)
    IN  IF required > chunk_len
        THEN Out([p EXCEPT !.length = required - chunk_len],
                 SinkFeedData(s, chunk), Ret(FALSE, TRUE, <<>>))
        ELSE Out([p EXCEPT !.length = 0], SinkFeedEof(SinkFeedData(s, chunk)),
                 Ret(TRUE, FALSE, PyFrom(chunk, required)))

\* feed_data, fixed-length mode (lines 323-337 and the final return)
FeedLength(p, s, chunk) ==
    LET required == p.length
        chunk_len == Len(chunk)
    IN  IF required >= chunk_len
        THEN LET p1 == [p EXCEPT !.length = required - chunk_len]
                 s1 == SinkFeedData(s, chunk)
             IN  IF p1.length = 0
                 THEN Out(p1, SinkFeedEof(s1), Ret(TRUE, FALSE, <<>>))
                 ELSE Out(p1, s1, Ret(FALSE, TRUE, <<>>))
        ELSE Out([p EXCEPT !.length = 0],
                 SinkFeedEof(SinkFeedData(s, PySlice(chunk, 0, required))),
                 Ret(TRUE, FALSE, PyFrom(chunk, required)))

RECURSIVE ChunkedLoop(_, _, _)

\* the TRAILERS block of the loop body (lines 404-412)
TrailersStep(p, s, chunk) ==
    IF p.chunk = PARSE_CHUNKED_TRAILERS
    THEN LET at == Find(chunk, SEP, 0, Len(chunk))
         IN  IF at >= 0
             THEN Out(p, SinkFeedEof(s), Ret(TRUE, FALSE, PyFrom(chunk, at + 2)))
             ELSE Out([p EXCEPT !.chunk_tail = chunk], s, Ret(FALSE, TRUE, <<>>))
    ELSE ChunkedLoop(p, s, chunk)

\* the CHUNK_EOF block (lines 395-402)
ChunkEofStep(p, s, chunk) ==
    IF p.chunk = PARSE_CHUNKED_CHUNK_EOF
    THEN IF PySlice(chunk, 0, 2) = SEP
         THEN TrailersStep([p EXCEPT !.chunk = PARSE_CHUNKED_SIZE], s,
                           PyFrom(chunk, 2))
         ELSE Out([p EXCEPT !.chunk_tail = chunk], s, Ret(FALSE, TRUE, <<>>))
    ELSE TrailersStep(p, s, chunk)

\* the CHUNK block (lines 377-393)
ChunkStep(p, s, chunk) ==
    IF p.chunk = PARSE_CHUNKED_CHUNK
    THEN LET required == p.chunk_size
             chunk_len == Len(chunk)
         IN  IF required >= chunk_len
             THEN Out([p EXCEPT !.chunk_size = required - chunk_len,
                                !.chunk = IF required - chunk_len = 0
                                          THEN PARSE_CHUNKED_CHUNK_EOF ELSE @],
                      SinkFeedData(s, chunk), Ret(FALSE, TRUE, <<>>))
             ELSE ChunkEofStep([p EXCEPT !.chunk_size = 0,
                                         !.chunk = PARSE_CHUNKED_CHUNK_EOF],
                               SinkFeedData(s, PySlice(chunk, 0, required)),
                               PyFrom(chunk, required))
    ELSE ChunkEofStep(p, s, chunk)

\* the SIZE block reading the whole size line as the size
SizeStep_ExtensionKept(p, s, chunk) ==
    IF p.chunk = PARSE_CHUNKED_SIZE
    THEN LET at == Find(chunk, SEP, 0, Len(chunk))
             size == PySlice(chunk, 0, at)
         IN  IF at >= 0
             THEN IF ~IsHex(size)
                  THEN Out(p, SinkSetException(s), Raised)
                  ELSE IF HexVal(size) = 0
                  THEN ChunkStep([p EXCEPT !.chunk = PARSE_CHUNKED_TRAILERS],
                                 s, PyFrom(chunk, at + 2))
                  ELSE ChunkStep([p EXCEPT !.chunk = PARSE_CHUNKED_CHUNK,
                                           !.chunk_size = HexVal(size)],
                                 s, PyFrom(chunk, at + 2))
             ELSE Out([p EXCEPT !.chunk_tail = chunk], s, Ret(FALSE, TRUE, <<>>))
    ELSE ChunkStep(p, s, chunk)

\* the SIZE block with the sink left unmarked when the size is refused
SizeStep_SinkUnmarked(p, s, chunk) ==
    IF p.chunk = PARSE_CHUNKED_SIZE
    THEN LET at == Find(chunk, SEP, 0, Len(chunk))
             i == IF at > 0 THEN Find(chunk, CHUNK_EXT, 0, at) ELSE -1
             size == IF i >= 0 THEN PySlice(chunk, 0, i)
                     ELSE PySlice(chunk, 0, at)
         IN  IF at >= 0
             THEN IF ~IsHex(size)
                  THEN Out(p, s, Raised)
                  ELSE IF HexVal(size) = 0
                  THEN ChunkStep([p EXCEPT !.chunk = PARSE_CHUNKED_TRAILERS],
                                 s, PyFrom(chunk, at + 2))
                  ELSE ChunkStep([p EXCEPT !.chunk = PARSE_CHUNKED_CHUNK,
                                           !.chunk_size = HexVal(size)],
                                 s, PyFrom(chunk, at + 2))
             ELSE Out([p EXCEPT !.chunk_tail = chunk], s, Ret(FALSE, TRUE, <<>>))
    ELSE ChunkStep(p, s, chunk)

\* the SIZE block (lines 347-375)
SizeStep(p, s, chunk) ==
    IF p.chunk = PARSE_CHUNKED_SIZE
    THEN LET at == Find(chunk, SEP, 0, Len(chunk))
             i == IF at > 0 THEN Find(chunk, CHUNK_EXT, 0, at) ELSE -1
             size == IF i >= 0 THEN PySlice(chunk, 0, i)
                     ELSE PySlice(chunk, 0, at)
         IN  IF at >= 0
             THEN IF ~IsHex(size)
                  THEN Out(p, SinkSetException(s), Raised)
                  ELSE IF HexVal(size) = 0
                  THEN ChunkStep([p EXCEPT !.chunk = PARSE_CHUNKED_TRAILERS],
                                 s, PyFrom(chunk, at + 2))
                  ELSE ChunkStep([p EXCEPT !.chunk = PARSE_CHUNKED_CHUNK,
                                           !.chunk_size = HexVal(size)],
                                 s, PyFrom(chunk, at + 2))
             ELSE Out([p EXCEPT !.chunk_tail = chunk], s, Ret(FALSE, TRUE, <<>>))
    ELSE ChunkStep(p, s, chunk)

\* while chunk: ... ; the return after the loop is line 418
ChunkedLoop(p, s, chunk) ==
    IF chunk = <<>> THEN Out(p, s, Ret(FALSE, TRUE, <<>>))
    ELSE SizeStep(p, s, chunk)

\* feed_data, chunked mode (lines 340-345)
FeedChunked(p, s, chunk) ==
    IF p.chunk_tail # <<>>
    THEN ChunkedLoop([p EXCEPT !.chunk_tail = <<>>], s, p.chunk_tail \o chunk)
    ELSE ChunkedLoop(p, s, chunk)

\* HttpPayloadParser.feed_data
feed_data(p, s, chunk) ==
    IF p.type = PARSE_LENGTH THEN FeedLength(p, s, chunk)
    ELSE IF p.type = PARSE_CHUNKED THEN FeedChunked(p, s, chunk)
    ELSE IF p.type = PARSE_UNTIL_EOF
    THEN Out(p, SinkFeedData(s, chunk), Ret(FALSE, TRUE, <<>>))
    ELSE Out(p, s, Ret(FALSE, TRUE, <<>>))

\* HttpPayloadParser.feed_eof
feed_eof(p, s) ==
    IF p.type = PARSE_UNTIL_EOF THEN SinkFeedEof(s) ELSE s

-----------------------------------------------------------------------------
(* PayloadWriter *)

\* The zlib compressor is modelled as a coder that turns each byte into its
\* upper-case form, may hold input back, and ends its stream with one
\* marker byte on flush().
Deflated(bytes) ==
    [i \in 1 .. Len(bytes) |->
        CASE bytes[i] = "a" -> "A" [] bytes[i] = "b" -> "B"
          [] bytes[i] = "c" -> "C" [] OTHER -> "?"]

\* compressobj.compress(chunk): emit tells whether zlib hands out what it
\* holds or keeps it
ZCompress(zbuf, chunk, emit) ==
    IF emit THEN [out |-> Deflated(zbuf \o chunk), zbuf |-> <<>>]
    ELSE [out |-> <<>>, zbuf |-> zbuf \o chunk]

\* compressobj.flush(): never empty
ZFlush(zbuf) == Deflated(zbuf) \o <<"Z">>

HighWater == 64 * 1024

\* Transport.write
transport_write(W, data) == [W EXCEPT !.sent = @ \o data]

\* set_transport writing the pending bytes and keeping them pending
set_transport_BufferKept(W) ==
    LET W1 == [W EXCEPT !.transport = TRUE]
    IN  IF W1.buffer # <<>>
        THEN transport_write(W1, W1.buffer)
        ELSE W1

\* PayloadWriter.set_transport up to the waiter test (lines 478-486)
set_transport(W) ==
    LET W1 == [W EXCEPT !.transport = TRUE]
    IN  IF W1.buffer # <<>>
        THEN [transport_write(W1, W1.buffer) EXCEPT !.buffer = <<>>]
        ELSE W1

\* set_transport, lines 486-489: with a drain waiter set, reading the
\* attribute _drain_maiter raises AttributeError before the waiter is
\* completed; the waiter stays as it is
set_transport_raises(W) == W.drain_waiter # "none"

\* PayloadWriter.buffer_data
buffer_data(W, chunk) ==
    IF chunk # <<>>
    THEN [W EXCEPT !.buffer_size = @ + Len(chunk),
                   !.output_length = @ + Len(chunk),
                   !.buffer = @ \o chunk]
    ELSE W

\* _write with the pending bytes sent after the new chunk
do_write_ChunkFirst(W, chunk) ==
    LET W1 == [W EXCEPT !.buffer_size = @ + Len(chunk),
                        !.output_length = @ + Len(chunk)]
    IN  IF W1.transport
        THEN [transport_write(W1, chunk \o W1.buffer) EXCEPT !.buffer = <<>>]
        ELSE [W1 EXCEPT !.buffer = @ \o chunk]

\* PayloadWriter._write
do_write(W, chunk) ==
    LET W1 == [W EXCEPT !.buffer_size = @ + Len(chunk),
                        !.output_length = @ + Len(chunk)]
    IN  IF W1.transport
        THEN IF W1.buffer # <<>>
             THEN [transport_write(W1, W1.buffer \o chunk) EXCEPT !.buffer = <<>>]
             ELSE transport_write(W1, chunk)
        ELSE [W1 EXCEPT !.buffer = @ \o chunk]

\* '%x\r\n' % len(chunk) + chunk + '\r\n'
Frame(chunk) == HexStr(Len(chunk)) \o SEP \o chunk \o SEP

Terminator == <<"0">> \o SEP \o SEP

\* PayloadWriter.write(chunk, drain=drain): the writer after the call, and
\* whether the call returned self.drain() instead of ()
write(W, chunk, drain, emit) ==
    LET z == ZCompress(W.zbuf, chunk, emit)
        c1 == IF W.compress THEN z.out ELSE chunk
        W1 == IF W.compress THEN [W EXCEPT !.zbuf = z.zbuf] ELSE W
        c2 == IF W1.hasLength /\ W1.length < Len(c1)
              THEN PySlice(c1, 0, W1.length) ELSE c1
        W2 == IF W1.hasLength
              THEN [W1 EXCEPT !.length = IF @ >= Len(c1) THEN @ - Len(c1) ELSE 0]
              ELSE W1
        c3 == IF W2.chunked THEN Frame(c2) ELSE c2
        W3 == [do_write(W2, c3) EXCEPT !.produced = @ \o c3,
                                       !.body = @ + Len(c2)]
    IN  IF W.compress /\ c1 = <<>> THEN [w |-> W1, drain |-> FALSE]
        ELSE IF W1.hasLength /\ W1.length < Len(c1) /\ c2 = <<>>
        THEN [w |-> W2, drain |-> FALSE]
        ELSE IF c3 = <<>> THEN [w |-> W2, drain |-> FALSE]
        ELSE IF W3.buffer_size > HighWater /\ drain
        THEN [w |-> [W3 EXCEPT !.buffer_size = 0], drain |-> TRUE]
        ELSE [w |-> W3, drain |-> FALSE]

\* write_eof up to its drain (lines 572-588): the final chunk is computed
\* and buffered
write_eof_buffer(W, chunk) ==
    LET c1 == IF W.compress THEN Deflated(W.zbuf \o chunk) \o <<"Z">> ELSE chunk
        c2 == IF c1 # <<>> /\ W.chunked
              THEN HexStr(Len(c1)) \o SEP \o c1 \o SEP \o Terminator
              ELSE c1
        c3 == IF ~W.compress /\ W.chunked THEN c2 \o Terminator ELSE c2
    IN  [buffer_data([W EXCEPT !.zbuf = <<>>], c3)
            EXCEPT !.produced = @ \o c3, !.body = @ + Len(c1),
                   !.eof_body = c1, !.eof_out = c3]

\* drain up to its yield (lines 596-607): where the coroutine goes next
drain_next(W) ==
    IF W.transport THEN "stream"
    ELSE IF W.buffer # <<>> THEN "waiter"
    ELSE "return"

\* the start of drain() leaving the pending bytes where they are
drain_start_Unflushed(W) ==
    IF W.transport THEN W
    ELSE IF W.buffer # <<>> /\ W.drain_waiter = "none"
         THEN [W EXCEPT !.drain_waiter = "pending"]
         ELSE W

drain_start(W) ==
    IF W.transport
    THEN IF W.buffer # <<>>
         THEN [transport_write(W, W.buffer) EXCEPT !.buffer = <<>>]
         ELSE W
    ELSE IF W.buffer # <<>> /\ W.drain_waiter = "none"
         THEN [W EXCEPT !.drain_waiter = "pending"]
         ELSE W

-----------------------------------------------------------------------------
(* Text *)

LowerChars ==
    <<"a", "b", "c", "d", "e", "f", "g", "h", "i", "j", "k", "l", "m",
      "n", "o", "p", "q", "r", "s", "t", "u", "v", "w", "x", "y", "z">>

UpperChars ==
    <<"A", "B", "C", "D", "E", "F", "G", "H", "I", "J", "K", "L", "M",
      "N", "O", "P", "Q", "R", "S", "T", "U", "V", "W", "X", "Y", "Z">>

LowerChar(c) ==
    IF \E i \in DOMAIN UpperChars : UpperChars[i] = c
    THEN LowerChars[CHOOSE i \in DOMAIN UpperChars : UpperChars[i] = c]
    ELSE c

UpperChar(c) ==
    IF \E i \in DOMAIN LowerChars : LowerChars[i] = c
    THEN UpperChars[CHOOSE i \in DOMAIN LowerChars : LowerChars[i] = c]
    ELSE c

\* str.lower(), str.upper()
StrLower(t) == [i \in 1 .. Len(t) |-> LowerChar(t[i])]

StrUpper(t) == [i \in 1 .. Len(t) |-> UpperChar(t[i])]

\* pat in t
Contains(t, pat) == Find(t, pat, 0, Len(t)) >= 0

HT == "HT"

Whitespace == {" ", HT, CR, LF}

\* t.strip(chars)
RECURSIVE StripChars(_, _)
StripChars(t, chars) ==
    IF t = <<>> THEN t
    ELSE IF t[1] \in chars THEN StripChars(Tail(t), chars)
    ELSE IF t[Len(t)] \in chars THEN StripChars(SubSeq(t, 1, Len(t) - 1), chars)
    ELSE t

\* t.strip()
Strip(t) == StripChars(t, Whitespace)

Digits == <<"0", "1", "2", "3", "4", "5", "6", "7", "8", "9">>

\* str(n) for n >= 0
RECURSIVE DecStr(_)
DecStr(n) ==
    IF n < 10 THEN <<Digits[n + 1]>>
    ELSE DecStr(n \div 10) \o <<Digits[(n % 10) + 1]>>

\* int(t) raises ValueError: an empty field or a non-digit (signs and
\* inner blanks are outside the modelled alphabet)
IsDec(t) ==
    /\ Len(t) > 0
    /\ \A i \in 1 .. Len(t) : \E d \in DOMAIN Digits : Digits[d] = t[i]

RECURSIVE DecVal(_)
DecVal(t) ==
    IF t = <<>> THEN 0
    ELSE 10 * DecVal(SubSeq(t, 1, Len(t) - 1))
            + (CHOOSE d \in DOMAIN Digits : Digits[d] = t[Len(t)]) - 1

-----------------------------------------------------------------------------
(* HttpMessage, Request, Response *)

HttpVersion10 == <<1, 0>>
HttpVersion11 == <<1, 1>>

\* tuple order of two versions
VersionLess(a, b) == a[1] < b[1] \/ (a[1] = b[1] /\ a[2] < b[2])

\* hdrs.*
CONTENT_LENGTH == <<"C", "o", "n", "t", "e", "n", "t", "-", "L", "e", "n", "g", "t", "h">>
TRANSFER_ENCODING == <<"T", "r", "a", "n", "s", "f", "e", "r", "-", "E", "n", "c", "o", "d", "i", "n", "g">>
CONNECTION == <<"C", "o", "n", "n", "e", "c", "t", "i", "o", "n">>
UPGRADE == <<"U", "p", "g", "r", "a", "d", "e">>
DATE == <<"D", "a", "t", "e">>
SERVER == <<"S", "e", "r", "v", "e", "r">>

\* The header map, a CIMultiDict: a list of (name, value) pairs whose names
\* compare without regard to case
SameName(a, b) == StrLower(a) = StrLower(b)

HdrHas(h, name) == \E i \in DOMAIN h : SameName(h[i][1], name)

\* headers.get(name): the first value, <<>> standing for None
HdrGet(h, name) ==
    IF HdrHas(h, name)
    THEN h[CHOOSE i \in DOMAIN h :
              /\ SameName(h[i][1], name)
              /\ \A j \in 1 .. (i - 1) : ~SameName(h[j][1], name)][2]
    ELSE <<>>

\* headers.add(name, value)
HdrAdd(h, name, value) == Append(h, <<name, value>>)

\* headers[name] = value: one pair of that name is left
HdrSet(h, name, value) ==
    SelectSeq(h, LAMBDA e : ~SameName(e[1], name)) \o <<<<name, value>>>>

\* headers.setdefault(name, value)
HdrSetDefault(h, name, value) ==
    IF HdrHas(h, name) THEN h ELSE HdrAdd(h, name, value)

\* The fields HttpMessage adds to a PayloadWriter; kind tells the subclass
NoMessage ==
    [kind |-> "PayloadWriter", version |-> HttpVersion11, closing |-> FALSE,
     keepalive |-> "None", headers |-> <<>>, headers_sent |-> FALSE,
     upgrade |-> FALSE, websocket |-> FALSE, has_chunked_hdr |-> FALSE,
     status |-> 0, method |-> <<>>, path |-> <<>>]

\* A writer object.  Code fields carry their names; buffer is the join of
\* the list _buffer (only non-empty chunks are ever appended to it).
\* History fields: created; pc, where the caller of this writer stands;
\* sent, the bytes given to transport.write; produced, the bytes its calls
\* produced; body, the payload bytes among them; eof_body and eof_out, the
\* final chunk write_eof was left with and what it buffered; limit, the
\* length the writer was given; given, the chunks the caller passed to
\* write and write_eof, joined; late, the bytes that writes made after
\* write_eof had returned added to output_length; enabled, enable_chunking
\* was called; err, the exception a header call ended with; alive, what the
\* latest keep_alive() returned; released, the
\* stream.release() calls; stray, a release made without the transport;
\* writes and drains, the calls made; head, the header block send_headers
\* produced.  msg holds the fields HttpMessage adds.
NoWriter ==
    [created |-> FALSE, transport |-> FALSE, hasLength |-> FALSE, length |-> 0,
     limit |-> 0,
     chunked |-> FALSE, buffer_size |-> 0, output_length |-> 0,
     buffer |-> <<>>, compress |-> FALSE, zbuf |-> <<>>,
     drain_waiter |-> "none",
     pc |-> "idle", sent |-> <<>>, produced |-> <<>>, body |-> 0,
     eof_body |-> <<>>, eof_out |-> <<>>, released |-> 0, stray |-> FALSE,
     writes |-> 0, drains |-> 0, head |-> <<>>, given |-> <<>>, late |-> 0,
     enabled |-> FALSE, err |-> "none", alive |-> "unasked",
     msg |-> NoMessage]

\* calc_reason: the entries of http.server's table the model uses
calc_reason(status) ==
    CASE status = 200 -> <<"O", "K">>
      [] status = 204 -> <<"N", "o", " ", "C", "o", "n", "t", "e", "n", "t">>
      [] OTHER -> DecStr(status)

\* Request.__init__ / Response.__init__ over HttpMessage.__init__: the
\* message fields of a new writer
NewMessage(m) ==
    [NoMessage EXCEPT
        !.kind = m.kind, !.version = m.version,
        !.closing = IF m.kind = "Request" /\ VersionLess(m.version, HttpVersion10)
                    THEN TRUE ELSE m.close,
        !.status = m.status, !.method = m.method, !.path = m.path]

\* Response.status_line / Request.status_line
status_line(W) ==
    IF W.msg.kind = "Response"
    THEN <<"H", "T", "T", "P", "/">> \o DecStr(W.msg.version[1]) \o <<".">>
            \o DecStr(W.msg.version[2]) \o <<" ">> \o DecStr(W.msg.status)
            \o <<" ">> \o calc_reason(W.msg.status) \o SEP
    ELSE W.msg.method \o <<" ">> \o W.msg.path \o <<" ">> \o <<"H", "T", "T", "P", "/">>
            \o DecStr(W.msg.version[1]) \o <<".">> \o DecStr(W.msg.version[2])
            \o SEP

\* autochunked with the status left out of the test
autochunked_AnyStatus(W) ==
    /\ ~W.hasLength
    /\ ~VersionLess(W.msg.version, HttpVersion11)

\* Response.autochunked / Request.autochunked
autochunked(W) ==
    /\ ~W.hasLength
    /\ ~VersionLess(W.msg.version, HttpVersion11)
    /\ W.msg.kind = "Response" => W.msg.status \notin {304, 204}

\* HttpMessage.add_header, its assertions passed
add_header(W, name, value) ==
    LET v == Strip(value)
        W1 == IF SameName(name, CONTENT_LENGTH)
              THEN [W EXCEPT !.hasLength = TRUE, !.length = DecVal(v),
                             !.limit = DecVal(v)]
              ELSE W
        W2 == IF SameName(name, TRANSFER_ENCODING)
              THEN [W1 EXCEPT !.msg.has_chunked_hdr =
                        (Strip(StrLower(v)) = <<"c", "h", "u", "n", "k", "e", "d">>)]
              ELSE W1
        val == StrLower(v)
    IN  IF SameName(name, CONNECTION)
        THEN IF Contains(val, <<"u", "p", "g", "r", "a", "d", "e">>)
             THEN [W2 EXCEPT !.msg.upgrade = TRUE]
             ELSE IF Contains(val, <<"c", "l", "o", "s", "e">>)
             THEN [W2 EXCEPT !.msg.keepalive = "False"]
             ELSE IF Contains(val, <<"k", "e", "e", "p", "-", "a", "l", "i", "v", "e">>)
             THEN [W2 EXCEPT !.msg.keepalive = "True"]
             ELSE W2
        ELSE IF SameName(name, UPGRADE)
        THEN [W2 EXCEPT !.msg.websocket = @ \/ Contains(val, <<"w", "e", "b", "s", "o", "c", "k", "e", "t">>),
                        !.msg.headers = HdrSet(@, name, v)]
        ELSE [W2 EXCEPT !.msg.headers = HdrAdd(@, name, v)]

\* HttpMessage._add_default_headers, with Response's Date and Server (the
\* date is the clock's, the server name the library's: one model value each)
add_default_headers(W) ==
    LET alive == IF W.msg.keepalive = "None" THEN ~W.msg.closing
                 ELSE W.msg.keepalive = "True"
        connection ==
            IF W.msg.upgrade THEN <<"U", "p", "g", "r", "a", "d", "e">>
            ELSE IF alive
            THEN IF W.msg.version = HttpVersion10 THEN <<"k", "e", "e", "p", "-", "a", "l", "i", "v", "e">> ELSE <<>>
            ELSE IF W.msg.version = HttpVersion11 THEN <<"c", "l", "o", "s", "e">> ELSE <<>>
        h1 == IF connection # <<>> THEN HdrSet(W.msg.headers, CONNECTION, connection)
              ELSE W.msg.headers
        h2 == IF W.msg.kind = "Response"
              THEN HdrSetDefault(HdrSetDefault(h1, DATE, <<"n", "o", "w">>),
                                 SERVER, <<"a", "i", "o">>)
              ELSE h1
    IN  [W EXCEPT !.msg.headers = h2]

\* ''.join([k + ': ' + v + '\r\n' for k, v in headers.items()])
RECURSIVE HeaderLines(_)
HeaderLines(h) ==
    IF h = <<>> THEN <<>>
    ELSE h[1][1] \o <<":", " ">> \o h[1][2] \o SEP \o HeaderLines(Tail(h))

\* HttpMessage.send_headers, its assertion passed
send_headers(W) ==
    LET W1 == [W EXCEPT !.msg.headers_sent = TRUE]
        W2 == IF ~W1.chunked /\ autochunked(W1)
              THEN [W1 EXCEPT !.chunked = TRUE] ELSE W1
        W3 == IF W2.chunked
              THEN [W2 EXCEPT !.msg.headers = HdrSet(@, TRANSFER_ENCODING, <<"c", "h", "u", "n", "k", "e", "d">>)]
              ELSE W2
        W4 == add_default_headers(W3)
        headers == status_line(W4) \o HeaderLines(W4.msg.headers) \o SEP
    IN  [buffer_data(W4, headers) EXCEPT !.produced = @ \o headers,
                                         !.head = headers]

\* HttpMessage.keep_alive
keep_alive(W) ==
    IF W.msg.keepalive = "None"
    THEN IF VersionLess(W.msg.version, HttpVersion10) THEN FALSE
         ELSE IF W.msg.version = HttpVersion10
         THEN HdrGet(W.msg.headers, CONNECTION)
                 = <<"k", "e", "e", "p", "-", "a", "l", "i", "v", "e">>
         ELSE ~W.msg.closing
    ELSE W.msg.keepalive = "True"

\* HttpMessage.force_close
force_close(W) == [W EXCEPT !.msg.closing = TRUE, !.msg.keepalive = "False"]

\* assert not self.headers_sent: the call ends with AssertionError
AssertionFailed(W) == [W EXCEPT !.err = "AssertionError"]

\* send_headers() with its assertion left out
send_headers_Unchecked(W) == send_headers(W)

\* message.send_headers() as called: the assertion, then the body
send_headers_call(W) ==
    IF W.msg.headers_sent THEN AssertionFailed(W) ELSE send_headers(W)

\* message.add_header(name, value) as called
add_header_call(W, name, value) ==
    IF W.msg.headers_sent THEN AssertionFailed(W)
    ELSE add_header(W, name, value)

-----------------------------------------------------------------------------
(* HttpParser, HttpRequestParser *)

max_field_size == 8190

\* t.lstrip()
RECURSIVE LStrip(_)
LStrip(t) ==
    IF t # <<>> /\ t[1] \in Whitespace THEN LStrip(Tail(t)) ELSE t

\* the 0-based index of the first element of t that is in chars, or Len(t)
RECURSIVE FirstIn(_, _)
FirstIn(t, chars) ==
    IF t = <<>> \/ t[1] \in chars THEN 0 ELSE 1 + FirstIn(Tail(t), chars)

\* t.split(None, maxsplit): fields between runs of whitespace; after
\* maxsplit fields the rest, less its leading whitespace, is the last one
RECURSIVE SplitWs(_, _)
SplitWs(t, maxsplit) ==
    LET u == LStrip(t)
        k == FirstIn(u, Whitespace)
    IN  IF u = <<>> THEN <<>>
        ELSE IF maxsplit = 0 THEN <<u>>
        ELSE <<PySlice(u, 0, k)>> \o SplitWs(PyFrom(u, k), maxsplit - 1)

\* METHRE = '[A-Z0-9$-_.]+', the bytes of the class that the model uses:
\* the range $-_ holds the digits, the upper-case letters and punctuation
METHRE_class ==
    {UpperChars[i] : i \in DOMAIN UpperChars} \cup {Digits[i] : i \in DOMAIN Digits}
        \cup {"$", "-", "_", ".", "/", ":", ";", "*", "+", ","}

\* METHRE.match(method): a match at the start of the string is enough
METHRE_match(method) == method # <<>> /\ method[1] \in METHRE_class

\* HDRRE.search(bname): a control, a delimiter, a blank
HDRRE_class ==
    {CR, LF, HT, " ", "(", ")", "<", ">", "@", ",", ";", ":", "[", "]", "=",
     "{", "}", "\\", "\""}

HDRRE_search(bname) == \E i \in DOMAIN bname : bname[i] \in HDRRE_class

\* int(t) accepts blanks around the digits
IsInt(t) == IsDec(Strip(t))

IntVal(t) == DecVal(Strip(t))

\* lines[i] of Python, 0-based; the index is in range
Line(lines, i) == lines[i + 1]

\* what parse_headers and parse_message give when they raise
ParseError(kind) == [raised |-> TRUE, error |-> kind]

\* a line that continues the header field before it
Continues(line) == line[1] \in {" ", HT}

\* the inner while loop of parse_headers (lines 138-151): the continuation
\* lines from lines[idx] on are collected; line[0] of the empty line that
\* ends the block, and lines[idx] behind the last line, raise IndexError
RECURSIVE Continuation(_, _, _, _)
Continuation(lines, idx, bvalue, header_length) ==
    LET line == Line(lines, idx)
        length == header_length + Len(line)
    IN  IF length > max_field_size THEN ParseError("LineTooLong")
        ELSE IF idx + 1 >= Len(lines) THEN ParseError("IndexError")
        ELSE IF Line(lines, idx + 1) = <<>> THEN ParseError("IndexError")
        ELSE IF Continues(Line(lines, idx + 1))
        THEN Continuation(lines, idx + 1, bvalue \o SEP \o line, length)
        ELSE [raised |-> FALSE, idx |-> idx + 1, bvalue |-> bvalue \o SEP \o line]

\* the while loop of parse_headers (lines 103-167), line = lines[idx]
RECURSIVE HeaderLoop(_, _, _)
HeaderLoop(lines, idx, headers) ==
    LET line == Line(lines, idx)
        colon == Find(line, <<":">>, 0, Len(line))
        bname == StrUpper(StripChars(PySlice(line, 0, colon), {" ", HT}))
        bvalue == PyFrom(line, colon + 1)
        c == Continuation(lines, idx + 1, bvalue, Len(line))
    IN  IF line = <<>> THEN [raised |-> FALSE, headers |-> headers]
        ELSE IF colon < 0 THEN ParseError("InvalidHeader")
        ELSE IF HDRRE_search(bname) THEN ParseError("InvalidHeader")
        ELSE IF idx + 1 >= Len(lines) THEN ParseError("IndexError")
        ELSE IF Line(lines, idx + 1) # <<>> /\ Continues(Line(lines, idx + 1))
        THEN IF c.raised THEN c
             ELSE HeaderLoop(lines, c.idx, HdrAdd(headers, bname, Strip(c.bvalue)))
        ELSE IF Len(line) > max_field_size THEN ParseError("LineTooLong")
        ELSE HeaderLoop(lines, idx + 1, HdrAdd(headers, bname, Strip(bvalue)))

\* hdrs.CONTENT_ENCODING
CONTENT_ENCODING == <<"C", "o", "n", "t", "e", "n", "t", "-", "E", "n", "c", "o", "d", "i", "n", "g">>

\* parse_headers comparing the Connection value as it was sent, not lowered
parse_headers_CaseSensitive(lines) ==
    LET r == HeaderLoop(lines, 1, <<>>)
        conn == HdrGet(r.headers, CONNECTION)
        enc == StrLower(HdrGet(r.headers, CONTENT_ENCODING))
        te == StrLower(HdrGet(r.headers, TRANSFER_ENCODING))
    IN  IF Len(lines) < 2 THEN ParseError("IndexError")
        ELSE IF r.raised THEN r
        ELSE [raised |-> FALSE,
              headers |-> r.headers,
              close_conn |-> IF conn = <<"c", "l", "o", "s", "e">> THEN "True"
                             ELSE IF conn = <<"k", "e", "e", "p", "-", "a", "l", "i", "v", "e">> THEN "False"
                             ELSE "None",
              encoding |-> IF enc = <<"g", "z", "i", "p">> THEN "gzip"
                           ELSE IF enc = <<"d", "e", "f", "l", "a", "t", "e">> THEN "deflate"
                           ELSE "None",
              upgrade |-> conn = <<"u", "p", "g", "r", "a", "d", "e">>,
              chunked |-> Contains(te, <<"c", "h", "u", "n", "k", "e", "d">>)]

\* HttpParser.parse_headers(lines): the header map and the flags derived
\* from it; close_conn and encoding are "None" where the code has None
parse_headers(lines) ==
    LET r == HeaderLoop(lines, 1, <<>>)
        conn == StrLower(HdrGet(r.headers, CONNECTION))
        enc == StrLower(HdrGet(r.headers, CONTENT_ENCODING))
        te == StrLower(HdrGet(r.headers, TRANSFER_ENCODING))
    IN  IF Len(lines) < 2 THEN ParseError("IndexError")
        ELSE IF r.raised THEN r
        ELSE [raised |-> FALSE,
              headers |-> r.headers,
              close_conn |-> IF conn = <<"c", "l", "o", "s", "e">> THEN "True"
                             ELSE IF conn = <<"k", "e", "e", "p", "-", "a", "l", "i", "v", "e">> THEN "False"
                             ELSE "None",
              encoding |-> IF enc = <<"g", "z", "i", "p">> THEN "gzip"
                           ELSE IF enc = <<"d", "e", "f", "l", "a", "t", "e">> THEN "deflate"
                           ELSE "None",
              upgrade |-> conn = <<"u", "p", "g", "r", "a", "d", "e">>,
              chunked |-> Contains(te, <<"c", "h", "u", "n", "k", "e", "d">>)]

\* no message was parsed
NoRawMessage == [raised |-> FALSE, error |-> "none"]

\* HttpRequestParser.parse_message(lines): a RawRequestMessage, or the
\* error raised
RequestParseMessage(lines) ==
    LET fields == SplitWs(Line(lines, 0), 2)
        method == StrUpper(fields[1])
        version == fields[3]
        dot == Find(version, <<".">>, 5, Len(version))
        n1 == PySlice(version, 5, dot)
        n2 == PyFrom(version, dot + 1)
        h == parse_headers(lines)
        v == <<IntVal(n1), IntVal(n2)>>
    IN  IF Len(fields) # 3 THEN ParseError("BadStatusLine")
        ELSE IF ~METHRE_match(method) THEN ParseError("BadStatusLine")
        ELSE IF PySlice(version, 0, 5) # <<"H", "T", "T", "P", "/">>
        THEN ParseError("BadStatusLine")
        ELSE IF dot < 0 \/ ~IsInt(n1) \/ ~IsInt(n2) THEN ParseError("BadStatusLine")
        ELSE IF h.raised THEN h
        ELSE [raised |-> FALSE, error |-> "none", kind |-> "RawRequestMessage",
              method |-> method, path |-> fields[2], version |-> v,
              headers |-> h.headers,
              should_close |-> IF h.close_conn = "None"
                               THEN ~VersionLess(HttpVersion10, v)
                               ELSE h.close_conn = "True",
              compression |-> h.encoding, upgrade |-> h.upgrade,
              chunked |-> h.chunked]

\* the length of the longest run of digits at the front of t
RECURSIVE DigitRun(_)
DigitRun(t) ==
    IF t # <<>> /\ IsDec(<<t[1]>>) THEN 1 + DigitRun(Tail(t)) ELSE 0

\* VERSRE = 'HTTP/(\d+).(\d+)' matched at the start of version: the
\* lengths k of a first digit group that leave one byte (not a newline)
\* and a digit behind it; the regex takes the longest
VERSRE_firsts(version) ==
    {k \in 1 .. DigitRun(PyFrom(version, 5)) :
        /\ Len(version) >= 5 + k + 2
        /\ version[5 + k + 1] # LF
        /\ IsDec(<<version[5 + k + 2]>>)}

VERSRE_match(version) ==
    /\ PySlice(version, 0, 5) = <<"H", "T", "T", "P", "/">>
    /\ VERSRE_firsts(version) # {}

\* (int(match.group(1)), int(match.group(2)))
VERSRE_version(version) ==
    LET k == CHOOSE i \in VERSRE_firsts(version) :
                \A j \in VERSRE_firsts(version) : j <= i
        second == PyFrom(version, 5 + k + 1)
    IN  <<DecVal(PySlice(version, 5, 5 + k)),
          DecVal(PySlice(second, 0, DigitRun(second)))>>

\* HttpResponseParser.parse_message(lines): a RawResponseMessage, or the
\* error raised
ResponseParseMessage(lines) ==
    LET first == SplitWs(Line(lines, 0), 1)
        version == first[1]
        second == SplitWs(first[2], 1)
        status == IF Len(second) = 2 THEN second[1] ELSE first[2]
        reason == IF Len(second) = 2 THEN second[2] ELSE <<>>
        h == parse_headers(lines)
        v == VERSRE_version(version)
    IN  IF Len(first) # 2 THEN ParseError("BadStatusLine")
        ELSE IF ~VERSRE_match(version) THEN ParseError("BadStatusLine")
        ELSE IF ~IsInt(status) THEN ParseError("BadStatusLine")
        ELSE IF IntVal(status) < 100 \/ IntVal(status) > 999
        THEN ParseError("BadStatusLine")
        ELSE IF h.raised THEN h
        ELSE [raised |-> FALSE, error |-> "none", kind |-> "RawResponseMessage",
              version |-> v, code |-> IntVal(status), reason |-> Strip(reason),
              headers |-> h.headers,
              should_close |-> IF h.close_conn = "None"
                               THEN ~VersionLess(HttpVersion10, v)
                               ELSE h.close_conn = "True",
              compression |-> h.encoding, upgrade |-> h.upgrade,
              chunked |-> h.chunked]

-----------------------------------------------------------------------------
(* The stream and the writers' calls *)

Writers == 1 .. NWriters

\* The stream: available, as the writers read and set it; waiters, the
\* set_transport callbacks given to acquire, by writer id; prior, whether
\* the writer of an earlier message still owns the transport.
IdleStream == [available |-> TRUE, waiters |-> <<>>, prior |-> FALSE]

\* stream.acquire(callback): the callback waits for the transport
stream_acquire(st, w) == [st EXCEPT !.waiters = Append(@, w)]

\* stream.release(): the transport goes to the longest waiting callback, or
\* the stream becomes available; raised tells that the callback raised
stream_release(st, ws) ==
    IF st.waiters # <<>>
    THEN [stream |-> [st EXCEPT !.waiters = Tail(@), !.available = FALSE],
          writers |-> [ws EXCEPT ![Head(st.waiters)] = set_transport(@)],
          raised |-> set_transport_raises(ws[Head(st.waiters)])]
    ELSE [stream |-> [st EXCEPT !.available = TRUE], writers |-> ws,
          raised |-> FALSE]

\* PayloadWriter.__init__ (lines 455-476) under the __init__ of the
\* message m
Construct(w, m) ==
    /\ ~writers[w].created
    /\ \A v \in 1 .. (w - 1) : writers[v].created
    /\ IF stream.available
       THEN /\ writers' = [writers EXCEPT ![w] =
                    [NoWriter EXCEPT !.created = TRUE, !.transport = TRUE,
                                     !.msg = NewMessage(m)]]
            /\ stream' = [stream EXCEPT !.available = FALSE]
       ELSE /\ writers' = [writers EXCEPT ![w] =
                    [NoWriter EXCEPT !.created = TRUE, !.msg = NewMessage(m)]]
            /\ stream' = stream_acquire(stream, w)
    /\ UNCHANGED pvars

\* the caller of writer w is free to make a call on it
Callable(w) == writers[w].created /\ writers[w].pc = "idle"

\* nothing was written through w yet
Fresh(w) == writers[w].writes = 0 /\ writers[w].produced = <<>>

\* PayloadWriter.enable_chunking
EnableChunking(w) ==
    /\ Callable(w) /\ Fresh(w) /\ ~writers[w].chunked
    /\ writers' = [writers EXCEPT ![w].chunked = TRUE, ![w].enabled = TRUE]
    /\ UNCHANGED <<pvars, stream>>

\* PayloadWriter.enable_compression
EnableCompression(w) ==
    /\ Callable(w) /\ Fresh(w) /\ ~writers[w].compress
    /\ writers' = [writers EXCEPT ![w].compress = TRUE]
    /\ UNCHANGED <<pvars, stream>>

\* message.add_header(name, value)
AddHeader(w, name, value) ==
    /\ Callable(w) /\ Fresh(w)
    /\ ~writers[w].msg.headers_sent
    /\ ~HdrHas(writers[w].msg.headers, name)
    /\ writers' = [writers EXCEPT ![w] = add_header(@, name, value)]
    /\ UNCHANGED <<pvars, stream>>

\* message.send_headers()
SendHeaders(w) ==
    /\ Callable(w)
    /\ ~writers[w].msg.headers_sent
    /\ writers' = [writers EXCEPT ![w] = send_headers(@)]
    /\ UNCHANGED <<pvars, stream>>

\* the caller awaits writer.drain(): the coroutine runs to its yield
drain_call(W) ==
    [drain_start(W) EXCEPT !.pc =
        CASE drain_next(W) = "stream" -> "drain_stream"
          [] drain_next(W) = "waiter" -> "drain_waiter"
          [] OTHER -> "idle"]

\* writer.write(chunk), awaiting the drain it may return
Write(w, chunk, emit) ==
    /\ Callable(w)
    /\ writers[w].writes < MaxWrites
    /\ writers[w].compress \/ emit
    /\ LET r == write(writers[w], chunk, TRUE, emit)
           W == [r.w EXCEPT !.writes = @ + 1, !.given = @ \o chunk]
       IN  writers' = [writers EXCEPT ![w] = IF r.drain THEN drain_call(W) ELSE W]
    /\ UNCHANGED <<pvars, stream>>

\* writer.write(chunk) after write_eof has returned.  A compressor that
\* was flushed refuses further input: compress raises and nothing changes.
\* pc tells how the call ended: "rejected" with an exception, "misused"
\* with a normal return.
LateWrite(w, chunk) ==
    /\ writers[w].pc = "closed"
    /\ LET r == write(writers[w], chunk, TRUE, TRUE)
       IN  writers' = [writers EXCEPT ![w] =
              IF writers[w].compress
              THEN [@ EXCEPT !.pc = "rejected"]
              ELSE [r.w EXCEPT
                      !.late = @ + r.w.output_length - writers[w].output_length,
                      !.given = @ \o chunk,
                      !.pc = "misused"]]
    /\ UNCHANGED <<pvars, stream>>

\* writer.drain()
Drain(w) ==
    /\ Callable(w)
    /\ writers[w].drains < MaxDrains
    /\ writers' = [writers EXCEPT ![w] =
            drain_call([writers[w] EXCEPT !.drains = @ + 1])]
    /\ UNCHANGED <<pvars, stream>>

\* write_eof after its drain (lines 592-593): the transport is dropped and
\* the stream released; an exception of the callback the stream runs
\* comes out of write_eof
eof_finish(w, ws, st) ==
    LET ws1 == [ws EXCEPT ![w].transport = FALSE,
                          ![w].released = @ + 1,
                          ![w].stray = @ \/ ~ws[w].transport]
        r == stream_release(st, ws1)
    IN  [stream |-> r.stream,
         writers |-> [r.writers EXCEPT ![w].pc =
                          IF r.raised THEN "raised" ELSE "closed"]]

\* writer.write_eof(chunk), up to its first yield or to its end
WriteEof(w, chunk) ==
    /\ Callable(w)
    /\ LET W1 == [write_eof_buffer(writers[w], chunk)
                     EXCEPT !.given = @ \o chunk]
           W2 == drain_start(W1)
           ws == [writers EXCEPT ![w] = W2]
       IN  IF drain_next(W1) = "return"
           THEN /\ writers' = eof_finish(w, ws, stream).writers
                /\ stream' = eof_finish(w, ws, stream).stream
           ELSE /\ writers' = [ws EXCEPT ![w].pc =
                        IF drain_next(W1) = "stream" THEN "eof_stream"
                        ELSE "eof_waiter"]
                /\ UNCHANGED stream
    /\ UNCHANGED pvars

\* stream.drain() completes: the drain, or the write_eof, of w goes on
StreamDrained(w) ==
    /\ writers[w].pc \in {"drain_stream", "eof_stream"}
    /\ IF writers[w].pc = "drain_stream"
       THEN /\ writers' = [writers EXCEPT ![w].pc = "idle"]
            /\ UNCHANGED stream
       ELSE /\ writers' = eof_finish(w, writers, stream).writers
            /\ stream' = eof_finish(w, writers, stream).stream
    /\ UNCHANGED pvars

\* the writer of the earlier message ends it and releases the stream
PriorRelease ==
    /\ stream.prior
    /\ writers' = stream_release(stream, writers).writers
    /\ stream' = [stream_release(stream, writers).stream EXCEPT !.prior = FALSE]
    /\ UNCHANGED pvars

Chunks == {<<>>, <<"a">>, <<"b", "c">>}

\* the arguments of Request(...) and Response(...)
RequestOf(method, path, version) ==
    [kind |-> "Request", version |-> version, close |-> FALSE, status |-> 0,
     method |-> method, path |-> path]

ResponseOf(status, version) ==
    [kind |-> "Response", version |-> version, close |-> FALSE,
     status |-> status, method |-> <<>>, path |-> <<>>]

GET == <<"G", "E", "T">>

WriterMessages ==
    {RequestOf(GET, <<"/">>, HttpVersion11), ResponseOf(204, HttpVersion11)}

\* the parser's variables, where no parser is at work
NoParser ==
    /\ parser = ChunkedParser0
    /\ sink = EmptySink
    /\ input = [bytes |-> <<>>, msgLen |-> 0, data |-> <<>>, trailer |-> FALSE,
               bad |-> FALSE, ext |-> FALSE]
    /\ pos = 0
    /\ last = NoCall
    /\ dones = <<>>
    /\ message = NoRawMessage

\* One writer, on a stream that is idle or still owned by the writer of an
\* earlier message: SpecWriter
InitWriter ==
    /\ NoParser
    /\ writers = [w \in Writers |-> NoWriter]
    /\ \E held \in BOOLEAN :
          stream = [IdleStream EXCEPT !.available = ~held, !.prior = held]

NextWriter ==
    \/ \E m \in WriterMessages : Construct(1, m)
    \/ EnableChunking(1)
    \/ EnableCompression(1)
    \/ \E n \in 1 .. MaxLength : AddHeader(1, CONTENT_LENGTH, DecStr(n))
    \/ SendHeaders(1)
    \/ \E c \in Chunks, emit \in BOOLEAN : Write(1, c, emit)
    \/ \E c \in Chunks : WriteEof(1, c)
    \/ Drain(1)
    \/ StreamDrained(1)
    \/ PriorRelease
    \/ \E c \in Chunks : LateWrite(1, c)

SpecWriter == InitWriter /\ [][NextWriter]_vars

\* the same, where the event loop does its part: a stream.drain() that is
\* awaited completes, and the writer of the earlier message releases the
\* stream
FairWriter ==
    SpecWriter /\ WF_vars(StreamDrained(1)) /\ WF_vars(PriorRelease)

\* A message and its header calls, in any order: SpecMessage
HttpVersion09 == <<0, 9>>

MessageVersions == {HttpVersion09, HttpVersion10, HttpVersion11}

MessageArgs ==
    {[RequestOf(GET, <<"/">>, v) EXCEPT !.close = c] :
        v \in MessageVersions, c \in BOOLEAN}
    \cup {[ResponseOf(st, v) EXCEPT !.close = c] :
        st \in {200, 204, 304}, v \in MessageVersions, c \in BOOLEAN}

HeaderChoices ==
    {<<CONNECTION, <<"k", "e", "e", "p", "-", "a", "l", "i", "v", "e">>>>,
     <<CONNECTION, <<"c", "l", "o", "s", "e">>>>,
     <<CONNECTION, <<"U", "p", "g", "r", "a", "d", "e">>>>,
     <<CONTENT_LENGTH, <<"1">>>>,
     <<TRANSFER_ENCODING, <<"c", "h", "u", "n", "k", "e", "d">>>>}

\* message.send_headers(), whether or not headers were sent before
SendHeadersCall(w) ==
    /\ Callable(w)
    /\ writers' = [writers EXCEPT ![w] = send_headers_call(@)]
    /\ UNCHANGED <<pvars, stream>>

\* message.add_header(name, value), whether or not headers were sent
AddHeaderCall(w, name, value) ==
    /\ Callable(w)
    /\ writers[w].msg.headers_sent \/ ~HdrHas(writers[w].msg.headers, name)
    /\ writers' = [writers EXCEPT ![w] = add_header_call(@, name, value)]
    /\ UNCHANGED <<pvars, stream>>

\* message.force_close()
ForceClose(w) ==
    /\ Callable(w)
    /\ writers' = [writers EXCEPT ![w] = force_close(@)]
    /\ UNCHANGED <<pvars, stream>>

\* message.keep_alive()
KeepAlive(w) ==
    /\ Callable(w)
    /\ writers' = [writers EXCEPT ![w].alive =
                      IF keep_alive(writers[w]) THEN "True" ELSE "False"]
    /\ UNCHANGED <<pvars, stream>>

InitMessage ==
    /\ NoParser
    /\ writers = [w \in Writers |-> NoWriter]
    /\ stream = IdleStream

NextMessage ==
    \/ \E m \in MessageArgs : Construct(1, m)
    \/ \E h \in HeaderChoices : AddHeaderCall(1, h[1], h[2])
    \/ EnableChunking(1)
    \/ SendHeadersCall(1)
    \/ ForceClose(1)
    \/ KeepAlive(1)

SpecMessage == InitMessage /\ [][NextMessage]_vars

\* Several writers created on one idle stream, their calls interleaved:
\* SpecShared
InitShared ==
    /\ NoParser
    /\ writers = [w \in Writers |-> NoWriter]
    /\ stream = IdleStream

NextShared ==
    \E w \in Writers :
        \/ Construct(w, RequestOf(GET, <<"/">>, HttpVersion11))
        \/ EnableChunking(w)
        \/ Write(w, <<"a">>, TRUE)
        \/ \E c \in {<<>>, <<"a">>} : WriteEof(w, c)
        \/ Drain(w)
        \/ StreamDrained(w)

SpecShared == InitShared /\ [][NextShared]_vars

-----------------------------------------------------------------------------
(* The byte streams the parser is driven with *)

Seqs(S, n) == UNION {[1 .. k -> S] : k \in 0 .. n}

\* chunk data of n bytes: plain bytes, or bytes that look like framing
DataOf(n, framing) ==
    [i \in 1 .. n |-> IF ~framing THEN "a" ELSE IF i % 2 = 1 THEN CR ELSE LF]

\* a chunk-extension, when the size line carries one
Ext(on) == IF on THEN <<";", "x">> ELSE <<>>

\* a trailer field, when the body carries one
Trailer(on) == IF on THEN <<"x", ":", "v", CR, LF>> ELSE <<>>

\* chunk = chunk-size [ chunk-ext ] CRLF chunk-data CRLF, one per size
RECURSIVE ChunkSeq(_, _, _)
ChunkSeq(sizes, ext, framing) ==
    IF sizes = <<>> THEN <<>>
    ELSE HexStr(Head(sizes)) \o Ext(ext) \o SEP
            \o DataOf(Head(sizes), framing) \o SEP
            \o ChunkSeq(Tail(sizes), ext, framing)

\* the data a chunked body carries
RECURSIVE Payload(_, _)
Payload(sizes, framing) ==
    IF sizes = <<>> THEN <<>>
    ELSE DataOf(Head(sizes), framing) \o Payload(Tail(sizes), framing)

\* chunked-body = *chunk last-chunk trailer-part CRLF
ChunkedBody(sizes, ext, framing, trailer) ==
    ChunkSeq(sizes, ext, framing)
        \o <<"0">> \o Ext(ext) \o SEP \o Trailer(trailer) \o SEP

BodyShapes ==
    [sizes : Seqs(1 .. MaxChunkSize, MaxChunks), ext : BOOLEAN,
     framing : BOOLEAN, trailer : BOOLEAN]

\* bytes of a following message that may sit behind the body
Pipelined == {<<>>, <<"G">>}

\* bytes: what is delivered; msgLen: the length of the message body at its
\* front; data: the payload it carries; trailer: it has a trailer field;
\* ext: its size lines carry a chunk-extension
ChunkedInputs ==
    {[bytes |-> ChunkedBody(b.sizes, b.ext, b.framing, b.trailer) \o n,
      msgLen |-> Len(ChunkedBody(b.sizes, b.ext, b.framing, b.trailer)),
      data |-> Payload(b.sizes, b.framing),
      trailer |-> b.trailer, bad |-> FALSE, ext |-> b.ext] :
        b \in BodyShapes, n \in Pipelined}

\* size fields that int(size, 16) refuses: a non-hex byte, nothing at all
BadSizes == {<<"g">>, <<>>}

\* chunked bodies that reach a size line which is not hexadecimal; msgLen
\* runs to the end of that line, data is what the chunks before it carry
BadSizeInputs ==
    {[bytes |-> ChunkSeq(b.sizes, b.ext, b.framing) \o z \o Ext(b.ext) \o SEP \o n,
      msgLen |-> Len(ChunkSeq(b.sizes, b.ext, b.framing) \o z \o Ext(b.ext) \o SEP),
      data |-> Payload(b.sizes, b.framing),
      trailer |-> FALSE, bad |-> TRUE, ext |-> b.ext] :
        b \in {c \in BodyShapes : ~c.trailer}, z \in BadSizes, n \in Pipelined}

RawInputs(len) ==
    {[bytes |-> b, msgLen |-> len, data |-> PySlice(b, 0, len),
      trailer |-> FALSE, bad |-> FALSE, ext |-> FALSE] :
        b \in Seqs({"a", "b"}, MaxInput)}

InputsFor(p) ==
    IF p.type = PARSE_CHUNKED THEN ChunkedInputs \cup BadSizeInputs
    ELSE IF p.type = PARSE_LENGTH THEN RawInputs(p.length)
    ELSE RawInputs(0)

-----------------------------------------------------------------------------
(* The parser driven by a connection: SpecParser *)

InitParser ==
    \E c \in {[p |-> NewParser(a), s |-> NewSink(a)] : a \in CtorArgs} :
        /\ parser = c.p
        /\ sink = c.s
        /\ input \in InputsFor(c.p)
        /\ pos = 0
        /\ last = NoCall
        /\ dones = <<>>
        /\ message = NoRawMessage
        /\ writers = [w \in Writers |-> NoWriter]
        /\ stream = IdleStream

\* the connection hands the next k bytes to feed_data
FeedData(k) ==
    /\ pos + k <= Len(input.bytes)
    /\ k = 0 => ~(last.op = "feed_data" /\ last.len = 0)
    /\ ~parser.deflate
    /\ ~last.ret.raised
    /\ last.op # "feed_eof"
    /\ LET o == feed_data(parser, sink, SubSeq(input.bytes, pos + 1, pos + k))
           c == [op |-> "feed_data", len |-> k, ret |-> o.ret]
       IN  /\ parser' = o.p
           /\ sink' = o.s
           /\ last' = c
           /\ dones' = IF o.ret.done
                        THEN Append(dones, [from |-> pos, to |-> pos + k,
                                            rest |-> o.ret.rest,
                                            none |-> o.ret.none,
                                            eof |-> o.s.eof])
                        ELSE dones
    /\ pos' = pos + k
    /\ UNCHANGED <<input, message, wvars>>

\* the connection was closed: feed_eof
FeedEof ==
    /\ last.op # "feed_eof"
    /\ sink' = feed_eof(parser, sink)
    /\ last' = [NoCall EXCEPT !.op = "feed_eof"]
    /\ UNCHANGED <<parser, input, pos, dones, message, wvars>>

NextParser ==
    \/ \E k \in (0 .. MaxCut) \cup {Len(input.bytes) - pos} : FeedData(k)
    \/ FeedEof

SpecParser == InitParser /\ [][NextParser]_vars

-----------------------------------------------------------------------------
(* A request written by the Request writer and parsed again: SpecRound *)

\* The line splitter in front of the header parser: the lines up to and
\* with the empty line, their CRLF stripped
RECURSIVE SplitLines(_)
SplitLines(t) ==
    LET k == Find(t, SEP, 0, Len(t))
    IN  IF k < 0 THEN <<t>>
        ELSE <<PySlice(t, 0, k)>> \o SplitLines(PyFrom(t, k + 2))

\* where the empty line that ends the head starts, or -1
HeadEnd(bytes) == Find(bytes, SEP \o SEP, 0, Len(bytes))

ReceivedLines(bytes) == SplitLines(PySlice(bytes, 0, HeadEnd(bytes) + 2))

ReceivedBody(bytes) == PyFrom(bytes, HeadEnd(bytes) + 4)

\* the method as the payload parser's constructor compares it
MethodName(method) ==
    CASE method = <<"P", "O", "S", "T">> -> "POST"
      [] method = <<"P", "U", "T">> -> "PUT"
      [] OTHER -> "GET"

\* the framing hints the connection takes from a parsed request to
\* construct the payload parser
PayloadParserArgs(msg) ==
    LET cl == HdrGet(msg.headers, CONTENT_LENGTH)
    IN  [hasLength |-> HdrHas(msg.headers, CONTENT_LENGTH) /\ IsInt(cl),
         length |-> IF IsInt(cl) THEN IntVal(cl) ELSE 0,
         chunked |-> msg.chunked,
         compression |-> msg.compression # "None",
         code |-> 200, method |-> MethodName(msg.method),
         readall |-> FALSE, response_with_body |-> TRUE]

\* the peer has received all that writer w gave the transport: the head is
\* parsed and the payload parser constructed for the body behind it
Receive(w) ==
    /\ writers[w].pc = "closed"
    /\ message = NoRawMessage
    /\ HeadEnd(writers[w].sent) >= 0
    /\ LET m == RequestParseMessage(ReceivedLines(writers[w].sent))
           body == ReceivedBody(writers[w].sent)
       IN  /\ message' = m
           /\ IF m.raised
              THEN UNCHANGED <<parser, sink, input>>
              ELSE /\ parser' = NewParser(PayloadParserArgs(m))
                   /\ sink' = NewSink(PayloadParserArgs(m))
                   /\ input' = [bytes |-> body, msgLen |-> Len(body),
                                data |-> writers[w].given, trailer |-> FALSE,
                                bad |-> FALSE, ext |-> FALSE]
    /\ UNCHANGED <<pos, last, dones, wvars>>

PUT == <<"P", "U", "T">>

RoundRequests ==
    {RequestOf(GET, <<"/">>, HttpVersion11),
     RequestOf(PUT, <<"/", "a">>, HttpVersion11)}

InitRound ==
    /\ NoParser
    /\ writers = [w \in Writers |-> NoWriter]
    /\ stream = IdleStream

NextRound ==
    \/ \E m \in RoundRequests : Construct(1, m)
    \/ Fresh(1) /\ SendHeaders(1)
    \/ writers[1].msg.headers_sent /\ \E c \in Chunks : Write(1, c, TRUE)
    \/ writers[1].msg.headers_sent /\ \E c \in Chunks : WriteEof(1, c)
    \/ StreamDrained(1)
    \/ Receive(1)
    \/ /\ message # NoRawMessage /\ ~message.raised
       /\ dones = <<>>
       /\ \E k \in (1 .. MaxCut) \cup {Len(input.bytes) - pos} : FeedData(k)

SpecRound == InitRound /\ [][NextRound]_vars

-----------------------------------------------------------------------------
(* The header parsers applied to blocks of lines: SpecHeaders *)

MaxFields == 2        \* header fields in a generated block

XNAME == <<"X", "-", "M">>

\* header fields: name, value, and the continuation line behind the first
\* line, <<>> when there is none
FieldChoices ==
    {[name |-> XNAME, value |-> <<"a">>, cont |-> c] :
        c \in {<<>>, <<HT, "b">>, <<" ", "c">>}}
    \cup {[name |-> CONNECTION, value |-> v, cont |-> <<>>] :
        v \in {<<"c", "l", "o", "s", "e">>, <<"C", "l", "o", "s", "e">>,
               <<"k", "e", "e", "p", "-", "a", "l", "i", "v", "e">>,
               <<"u", "p", "g", "r", "a", "d", "e">>, <<"x">>}}
    \cup {[name |-> CONNECTION, value |-> <<"c", "l", "o", "s", "e">>,
           cont |-> <<HT, "b">>]}

\* the lines of one field: 'Name: value', then its continuation line
FieldLines(f) ==
    <<f.name \o <<":", " ">> \o f.value>>
        \o (IF f.cont = <<>> THEN <<>> ELSE <<f.cont>>)

RECURSIVE BlockLines(_)
BlockLines(fields) ==
    IF fields = <<>> THEN <<>>
    ELSE FieldLines(Head(fields)) \o BlockLines(Tail(fields))

VersionText(v) ==
    <<"H", "T", "T", "P", "/">> \o DecStr(v[1]) \o <<".">> \o DecStr(v[2])

\* [start-line, header lines ..., empty line], as the line splitter
\* delivers them
RequestLines(fields, v) ==
    <<GET \o <<" ", "/", " ">> \o VersionText(v)>>
        \o BlockLines(fields) \o << <<>> >>

ResponseLines(fields, v) ==
    <<VersionText(v) \o <<" ", "2", "0", "0", " ", "O", "K">>>>
        \o BlockLines(fields) \o << <<>> >>

HeaderInputs ==
    [fields : Seqs(FieldChoices, MaxFields),
     version : {HttpVersion09, HttpVersion10, HttpVersion11}]

InitHeaders ==
    /\ parser = ChunkedParser0
    /\ sink = EmptySink
    /\ input \in HeaderInputs
    /\ pos = 0
    /\ last = NoCall
    /\ dones = <<>>
    /\ message = NoRawMessage
    /\ writers = [w \in Writers |-> NoWriter]
    /\ stream = IdleStream

\* HttpRequestParser().parse_message(lines)
ParseRequest ==
    /\ message' = RequestParseMessage(RequestLines(input.fields, input.version))
    /\ UNCHANGED <<parser, sink, input, pos, last, dones, wvars>>

\* HttpResponseParser().parse_message(lines)
ParseResponse ==
    /\ message' = ResponseParseMessage(ResponseLines(input.fields, input.version))
    /\ UNCHANGED <<parser, sink, input, pos, last, dones, wvars>>

NextHeaders == ParseRequest \/ ParseResponse

SpecHeaders == InitHeaders /\ [][NextHeaders]_vars

-----------------------------------------------------------------------------
(* Claims about the parser, checked under SpecParser *)

\* feeding the whole body as a single buffer
OneShot == feed_data(ChunkedParser0, EmptySink, PySlice(input.bytes, 0, input.msgLen))

\* the body was cut into buffers and all of it was fed
BodyFed == pos >= input.msgLen /\ last.op = "feed_data"

\* the sliced feeds forwarded what the single buffer forwards, which is the
\* payload of the body, and done = true came from exactly the feed that
\* delivered the last byte of the body
SlicedAsOneShot ==
    /\ BodyFed => sink.data = OneShot.s.data /\ sink.data = input.data
    /\ \A i \in DOMAIN dones :
          dones[i].from < input.msgLen /\ input.msgLen <= dones[i].to
    /\ BodyFed => Len(dones) = 1

\* C1: for every well-formed chunked body, cut into buffers in any way, the
\* data forwarded to the sink is that of the single-buffer feed, nothing is
\* lost or duplicated, and done = true is returned by exactly the feed that
\* delivers the last byte of the body.
C1_ChunkedSlicing ==
    (parser.type = PARSE_CHUNKED /\ ~parser.deflate /\ ~input.bad)
        => SlicedAsOneShot

\* C1 restricted to bodies without trailer fields, where it holds
ChunkedSlicingWithoutTrailer ==
    (parser.type = PARSE_CHUNKED /\ ~parser.deflate /\ ~input.trailer
        /\ ~input.bad)
        => SlicedAsOneShot

\* C9: in fixed-length mode with L > 0 the sink is forwarded exactly the
\* first L bytes; feed_data returns (false, none) while fewer than L bytes
\* were seen, and (true, leftover) on the buffer that reaches L, leftover
\* being the bytes of that buffer beyond the L-th, with EOF signalled to
\* the sink on that call.
C9_FixedLength ==
    (parser.type = PARSE_LENGTH /\ input.msgLen > 0 /\ ~parser.deflate) =>
        LET L == input.msgLen
        IN  /\ sink.data = PySlice(input.bytes, 0, Min(pos, L))
            /\ pos < L =>
                  /\ dones = <<>>
                  /\ sink.eof = 0
                  /\ last.ret = Ret(FALSE, TRUE, <<>>)
            /\ pos >= L =>
                  /\ Len(dones) >= 1
                  /\ dones[1].from < L /\ L <= dones[1].to
                  /\ ~dones[1].none
                  /\ dones[1].rest = PySlice(input.bytes, L, dones[1].to)
                  /\ dones[1].eof = 1

\* a fixed-length body was completed by a buffer that ran past its end
C9_Witness ==
    /\ parser.type = PARSE_LENGTH /\ input.msgLen > 1
    /\ Len(dones) >= 1
    /\ dones[1].from > 0 /\ dones[1].rest # <<>>

\* C10: right after construction, framing none implies done = true.
C10_NoneIsDone ==
    (last.op = "none" /\ pos = 0 /\ parser.type = PARSE_NONE) => parser.done

C17_ExtensionDiscarded ==
    (/\ parser.type = PARSE_CHUNKED /\ ~parser.deflate
     /\ input.ext /\ ~input.bad /\ ~input.trailer) =>
        /\ sink.data = PySlice(input.data, 0, Len(sink.data))
        /\ ~sink.exc /\ ~last.ret.raised
        /\ (pos >= input.msgLen - 2 /\ last.op = "feed_data")
              => parser.chunk = PARSE_CHUNKED_TRAILERS
        /\ BodyFed =>
              /\ sink.data = input.data
              /\ Len(dones) = 1 /\ dones[1].eof = 1
              /\ dones[1].to >= input.msgLen

\* a body whose size lines carry an extension was fed in pieces, its data
\* forwarded and done = true returned
C17_Witness ==
    /\ parser.type = PARSE_CHUNKED /\ input.ext /\ ~input.bad
    /\ ~input.trailer
    /\ BodyFed /\ dones # <<>>
    /\ sink.data = input.data /\ sink.data # <<>>
    /\ last.len < input.msgLen

\* C20: for a chunked body with trailer fields between the zero-size chunk
\* and the empty line, every trailer byte is discarded: done = true is
\* returned only by the feed that delivers the empty line, and the leftover
\* of that feed is what the buffer holds behind the empty line.
C20_TrailerDiscarded ==
    (/\ parser.type = PARSE_CHUNKED /\ ~parser.deflate
     /\ input.trailer /\ ~input.bad) =>
        /\ sink.data = PySlice(input.data, 0, Len(sink.data))
        /\ \A i \in DOMAIN dones :
              /\ dones[i].from < input.msgLen /\ input.msgLen <= dones[i].to
              /\ dones[i].rest = PySlice(input.bytes, input.msgLen, dones[i].to)

\* C21: the parser's done field tracks the completion of the body: once a
\* feed_data call has returned done = true, for a fixed-length or a chunked
\* body, the field is true, and it stays true.
C21_DoneTerminal ==
    (parser.type \in {PARSE_LENGTH, PARSE_CHUNKED} /\ dones # <<>>)
        => parser.done

\* a done field that is true stays true
DoneStaysTrue == [][parser.done => parser'.done]_vars

\* C22: over any sequence of feed_data and feed_eof calls on one parser,
\* in every framing mode, the sink's feed_eof is invoked at most once, the
\* EOF signalled at construction counted, calls after done = true included.
C22_EofOnce == sink.eof <= 1

\* C22 for a parser not done at construction, up to the first feed_data
\* that returns done = true
EofOnceUntilDone ==
    (~parser.done /\ (dones = <<>> \/ (Len(dones) = 1 /\ last.ret.done)))
        => sink.eof <= 1

-----------------------------------------------------------------------------
(* Claims about one writer, checked under SpecWriter and FairWriter *)

\* write_eof was called on the writer
EofCalled(W) == W.pc \in {"eof_stream", "eof_waiter", "closed", "raised"}

\* C2: with an advertised length L, the payload bytes emitted by the write
\* and write_eof calls never exceed L.
C2_LengthBound ==
    \A w \in Writers : writers[w].hasLength => writers[w].body <= writers[w].limit

\* C3: a drain parked on the internal waiter has its waiter completed once
\* the stream has called set_transport.
C3_DrainWaiterCompleted ==
    \A w \in Writers :
        (writers[w].pc = "drain_waiter" /\ writers[w].transport)
            => writers[w].drain_waiter = "done"

\* C4: every write_eof call eventually returns, having released the stream
\* exactly once, when the stream hands over the transport and its drain
\* completes.
C4_WriteEofReturns ==
    \A w \in Writers :
        (writers[w].pc \in {"eof_stream", "eof_waiter"})
            ~> (writers[w].pc = "closed" /\ writers[w].released = 1)

\* C12: once write_eof has returned, a later write on the writer is
\* rejected and adds no byte to its output.
C12_NoWriteAfterEof ==
    \A w \in Writers : writers[w].pc # "misused" /\ writers[w].late = 0

\* C13: keep_alive() returns false for every message whose version is
\* below HTTP/1.0, whatever headers were added and whatever closing is.
C13_NoKeepAliveBelow10 ==
    \A w \in Writers :
        (writers[w].alive # "unasked"
            /\ VersionLess(writers[w].msg.version, HttpVersion10))
        => writers[w].alive = "False"

\* the value of the Transfer-Encoding header is chunked
HasChunkedHeader(W) ==
    HdrGet(W.msg.headers, TRANSFER_ENCODING)
        = <<"c", "h", "u", "n", "k", "e", "d">>

\* C14: for a Response, after send_headers the chunked flag is true iff
\* chunking was enabled before, or no Content-Length was added and the
\* version is at least HTTP/1.1 and the status neither 204 nor 304; and the
\* header map has Transfer-Encoding: chunked from send_headers exactly when
\* the flag is true (a header of that name the caller added stays).
C14_ResponseAutochunk ==
    \A w \in Writers :
        LET W == writers[w]
        IN  (W.msg.kind = "Response" /\ W.msg.headers_sent) =>
              /\ W.chunked <=>
                    \/ W.enabled
                    \/ /\ ~W.hasLength
                       /\ ~VersionLess(W.msg.version, HttpVersion11)
                       /\ W.msg.status \notin {204, 304}
              /\ W.chunked => HasChunkedHeader(W)
              /\ (HasChunkedHeader(W) /\ ~W.msg.has_chunked_hdr) => W.chunked

\* a 204 response on HTTP/1.1 without Content-Length went out unchunked
C14_Witness ==
    \E w \in Writers :
        /\ writers[w].msg.kind = "Response" /\ writers[w].msg.headers_sent
        /\ writers[w].msg.status = 204 /\ writers[w].msg.version = HttpVersion11
        /\ ~writers[w].hasLength /\ ~writers[w].chunked
        /\ ~HasChunkedHeader(writers[w])

\* C15: headers are sent once and frozen then: a second send_headers and
\* an add_header after send_headers fail their assertion and leave the
\* header map, the length, the chunked flag and the pending buffer as they
\* were.
C15_HeadersFrozen ==
    [][\A w \in Writers :
          writers[w].msg.headers_sent =>
              /\ writers'[w].msg.headers = writers[w].msg.headers
              /\ writers'[w].hasLength = writers[w].hasLength
              /\ writers'[w].length = writers[w].length
              /\ writers'[w].chunked = writers[w].chunked
              /\ writers'[w].buffer = writers[w].buffer
              /\ writers'[w].head = writers[w].head
              /\ writers'[w].msg.headers_sent]_vars

\* a header call made after the headers were sent failed its assertion,
\* the header block still pending
C15_Witness ==
    \E w \in Writers :
        /\ writers[w].msg.headers_sent
        /\ writers[w].err = "AssertionError"
        /\ writers[w].buffer = writers[w].head /\ writers[w].head # <<>>

\* C19: at the step in which write_eof releases the stream, every byte the
\* writer has emitted, the header block, the body, the final chunk and the
\* terminator, has been passed to transport.write and nothing is pending.
C19_FlushedAtRelease ==
    [][\A w \in Writers :
          writers'[w].released > writers[w].released =>
              /\ writers'[w].buffer = <<>>
              /\ writers'[w].sent = writers'[w].produced]_vars

\* write_eof released the stream with the header block, written body and
\* its own last bytes on the transport
C19_Witness ==
    \E w \in Writers :
        /\ writers[w].released = 1 /\ ~writers[w].stray
        /\ writers[w].head # <<>> /\ writers[w].writes > 0
        /\ writers[w].eof_out # <<>>
        /\ writers[w].buffer = <<>>
        /\ Len(writers[w].sent) >
              Len(writers[w].head) + Len(writers[w].eof_out)

\* the bytes the writer's calls produced behind the header block
BodyProduced(W) == PyFrom(W.produced, Len(W.head))

\* C23: in chunked mode write never emits a zero-size frame: before
\* write_eof the emitted body holds no 0 CRLF CRLF.
C23_NoZeroFrame ==
    \A w \in Writers :
        (writers[w].chunked /\ writers[w].eof_out = <<>>) =>
            Find(BodyProduced(writers[w]), Terminator, 0,
                 Len(BodyProduced(writers[w]))) < 0

\* C24: output_length is the number of bytes passed to transport.write plus
\* the number of bytes pending in the buffer, and these are the bytes the
\* calls produced, none lost and none written twice.
C24_BytesConserved ==
    \A w \in Writers :
        /\ writers[w].output_length
              = Len(writers[w].sent) + Len(writers[w].buffer)
        /\ writers[w].output_length = Len(writers[w].produced)

\* a writer buffered bytes without the transport and was parked in drain;
\* the transport came and the pending bytes went out, each counted once
C24_Witness ==
    \E w \in Writers :
        /\ writers[w].pc = "drain_waiter" /\ writers[w].transport
        /\ writers[w].writes > 0
        /\ writers[w].buffer = <<>>
        /\ writers[w].output_length > 1
        /\ Len(writers[w].sent) = writers[w].output_length

\* the writers that hold the transport, the earlier message's among them
Holders ==
    Cardinality({w \in Writers : writers[w].transport})
        + (IF stream.prior THEN 1 ELSE 0)

\* C5: with several writers on one stream at most one holds the transport
\* at any moment, and no writer releases the stream while it does not hold
\* the transport.
C5_OneHolder ==
    /\ Holders <= 1
    /\ \A w \in Writers : ~writers[w].stray

\* a write_eof was parked without the transport, which came later, and the
\* header block went out ahead of the body
C6_Witness ==
    \E w \in Writers :
        /\ writers[w].pc = "eof_waiter" /\ writers[w].transport
        /\ writers[w].head # <<>> /\ writers[w].writes > 0
        /\ Len(writers[w].sent) > Len(writers[w].head)
        /\ SubSeq(writers[w].sent, 1, Len(writers[w].head)) = writers[w].head

\* C6: the bytes given to the transport, followed by those still pending,
\* are the bytes the calls produced, in call order, whenever the transport
\* was attached; once write_eof has returned all of them are on the
\* transport.
C6_BytesInCallOrder ==
    \A w \in Writers :
        /\ writers[w].sent \o writers[w].buffer = writers[w].produced
        /\ writers[w].pc = "closed" => writers[w].sent = writers[w].produced

\* C7: a chunking writer's write_eof ends the body with one terminator: the
\* final chunk, when not empty, as one frame, then 0 CRLF CRLF, and nothing
\* after it.
C7_OneTerminator ==
    \A w \in Writers :
        (writers[w].chunked /\ EofCalled(writers[w])) =>
            writers[w].eof_out =
                (IF writers[w].eof_body # <<>> THEN Frame(writers[w].eof_body)
                 ELSE <<>>) \o Terminator

-----------------------------------------------------------------------------
(* The round trip, checked under SpecRound *)

\* the received request was parsed and its whole body fed
RoundFed == message # NoRawMessage /\ pos = Len(input.bytes) /\ last.op = "feed_data"

\* the parsed request is the written one and the chunked parser gives the
\* sink the chunks written, done = true coming with the last byte and an
\* empty leftover
RoundTrip ==
    message # NoRawMessage =>
        /\ ~message.raised
        /\ message.method = writers[1].msg.method
        /\ message.path = writers[1].msg.path
        /\ message.version = writers[1].msg.version
        /\ parser.type = PARSE_CHUNKED
        /\ \A i \in DOMAIN dones :
              dones[i].to = Len(input.bytes) /\ dones[i].rest = <<>>
        /\ RoundFed => dones # <<>> /\ sink.data = input.data /\ sink.eof = 1

\* C8: a request the Request writer emitted with a chunked body, from any
\* write(chunk) calls and a write_eof(chunk), parses back to the same
\* method, path and version, and the chunked parser fed the emitted body
\* gives the sink the concatenation of the chunks and returns done = true
\* with an empty leftover on the last byte.
C8_RoundTrip == writers[1].chunked => RoundTrip

\* the round trip of the bodies in which 0 CRLF CRLF stands at the end only
RoundTripOneTerminator ==
    (/\ writers[1].chunked
     /\ message # NoRawMessage
     /\ Find(input.bytes, Terminator, 0, Len(input.bytes))
            = Len(input.bytes) - Len(Terminator))
        => RoundTrip

\* a body of two chunks made the round trip
RoundTripReached ==
    /\ RoundFed /\ writers[1].writes = 2 /\ Len(sink.data) = 3
    /\ dones # <<>>

-----------------------------------------------------------------------------
(* Claims about the header parsers, checked under SpecHeaders *)

\* a parse_message call has returned or raised
Parsed == message # NoRawMessage

\* the (NAME, value) pairs the fields of a block stand for: each value
\* joined with its continuation line by CR LF
JoinedFields(fields) ==
    [i \in 1 .. Len(fields) |->
        <<StrUpper(fields[i].name),
          IF fields[i].cont = <<>> THEN fields[i].value
          ELSE fields[i].value \o SEP \o fields[i].cont>>]

\* C16: parse_headers joins a header line with the continuation lines that
\* directly follow it, with CR LF between them, wherever the header stands
\* in the block, the last header before the empty line included: the block
\* parses without error to the joined values.
C16_ContinuationJoined ==
    Parsed => /\ ~message.raised
              /\ message.headers = JoinedFields(input.fields)

\* the same for the blocks whose last header has no continuation line
ContinuationInsideJoined ==
    (/\ Parsed
     /\ input.fields # <<>>
     /\ input.fields[Len(input.fields)].cont = <<>>)
        => /\ ~message.raised
           /\ message.headers = JoinedFields(input.fields)

\* a header with a continuation line, followed by another header, was parsed
ContinuationInsideReached ==
    /\ Parsed /\ ~message.raised
    /\ Len(input.fields) = 2
    /\ input.fields[1].cont # <<>>

\* the fields of a block named Connection
ConnectionFields(fields) ==
    SelectSeq(fields, LAMBDA f : SameName(f.name, CONNECTION))

\* what the Connection header of a block asks for: "close", "keep-alive",
\* "upgrade", or "other" for any other value and for a block without it
Asked(fields) ==
    LET c == ConnectionFields(fields)
        v == StrLower(c[1].value)
    IN  IF c = <<>> \/ c[1].cont # <<>> THEN "other"
        ELSE IF v = <<"c", "l", "o", "s", "e">> THEN "close"
        ELSE IF v = <<"k", "e", "e", "p", "-", "a", "l", "i", "v", "e">>
        THEN "keep-alive"
        ELSE IF v = <<"u", "p", "g", "r", "a", "d", "e">> THEN "upgrade"
        ELSE "other"

\* C18: should_close of every record returned by either parse_message is
\* a boolean, never None: true for Connection 'close' in any case, false
\* for 'keep-alive', and otherwise true iff version <= HTTP/1.0; upgrade
\* is true exactly for Connection 'upgrade'.
C18_ShouldCloseBoolean ==
    (Parsed /\ ~message.raised) =>
        /\ message.should_close \in BOOLEAN
        /\ message.should_close =
              CASE Asked(input.fields) = "close" -> TRUE
                [] Asked(input.fields) = "keep-alive" -> FALSE
                [] OTHER -> input.version \in {HttpVersion09, HttpVersion10}
        /\ message.upgrade = (Asked(input.fields) = "upgrade")

\* an HTTP/1.1 response with 'Connection: Close' was parsed and closes
C18_Witness ==
    /\ Parsed /\ ~message.raised
    /\ message.kind = "RawResponseMessage"
    /\ input.version = HttpVersion11
    /\ input.fields # <<>>
    /\ input.fields[1].name = CONNECTION
    /\ input.fields[1].value = <<"C", "l", "o", "s", "e">>
    /\ message.should_close

=============================================================================
